---- MODULE Spec2Model ----
(***************************************************************************)
(* SpadesTool.assemble (tools/spades.py): the loop that runs the SPAdes    *)
(* assembler once per k-mer size (and, in meta mode, once per library),    *)
(* filters each run's transcripts and accumulates them in contigs_out.     *)
(*                                                                         *)
(* A file is a record [exists, data]; the data of a fasta file is the      *)
(* sequence of its records, a record being the length of its sequence.     *)
(* The scratch directory of an attempt is [exists, id, files], files being *)
(* a function from the names of the files it holds to their data.          *)
(***************************************************************************)
EXTENDS Integers, Sequences, FiniteSets, TLC

\* ------------------------------------------------------------------ bounds

MaxLibs == 2
MaxTotalRecs == 2
MaxAttempts == 3

\* the threshold a caller gives as min_contig_len, when it gives one
MinContigLen == 2

\* the lengths of the assembled sequences: below the threshold, and at it
RecLens == {MinContigLen - 1, MinContigLen}

\* the largest number of paired-end libraries of one invocation
MaxPe == 9

\* Python's None, as a k-mer size
None == 0 - 1

\* ------------------------------------------------------------------ inputs

Modes == {"rna", "meta", "bogus"}

RECURSIVE SeqsUpTo(_, _)
SeqsUpTo(S, n) ==
    IF n = 0 THEN {<<>>}
    ELSE LET shorter == SeqsUpTo(S, n - 1)
         IN  shorter \cup {Append(s, x) : s \in {t \in shorter : Len(t) = n - 1}, x \in S}

\* a library names its reads by the state of their files: "nonempty", "empty"
\* or "missing"
LibraryKinds ==
    { [reads_fwd |-> "nonempty", reads_unpaired |-> "nonempty"],
      [reads_fwd |-> "empty",    reads_unpaired |-> "missing"] }

\* a library carries its position in the caller's list as its identity
Number(kinds) ==
    [i \in 1..Len(kinds) |->
        [id |-> i, reads_fwd |-> kinds[i].reads_fwd, reads_unpaired |-> kinds[i].reads_unpaired]]

\* n libraries with forward reads, their unpaired reads missing, empty and
\* non-empty in turn
ManyLibs(n) ==
    [i \in 1..n |->
        [id |-> i, reads_fwd |-> "nonempty",
         reads_unpaired |-> IF i % 3 = 1 THEN "missing"
                            ELSE IF i % 3 = 2 THEN "empty" ELSE "nonempty"]]

LibraryInputs ==
    {Number(kinds) : kinds \in SeqsUpTo(LibraryKinds, MaxLibs)}
        \cup {ManyLibs(MaxPe), ManyLibs(MaxPe + 1)}

KmerInputs ==
    { [given |-> FALSE, sizes |-> <<>>],
      [given |-> TRUE,  sizes |-> <<>>],
      [given |-> TRUE,  sizes |-> <<21>>],
      [given |-> TRUE,  sizes |-> <<0, 21>>],
      [given |-> TRUE,  sizes |-> <<21, 21>>],
      [given |-> TRUE,  sizes |-> <<21, 33, 55>>] }

\* what one run of the assembler may leave in its transcripts file
Outputs == SeqsUpTo(RecLens, MaxTotalRecs)

NoFile == [exists |-> FALSE, data |-> <<>>]
File(data) == [exists |-> TRUE, data |-> data]

PriorContigs == {NoFile, File(<<1>>)}

\* ------------------------------------------------------------------ state

VARIABLES
    mode, always_succeed, max_kmer_sizes, filter_contigs, min_contig_len, kmer_sizes,
    libraries,
    contigs_out,
    spades_dir,
    pc,
    kmer_idx, lib_idx,
    contigs_cumul_count, kmer_sizes_succeeded, this_kmer_size_succeeded,
    args, transcripts_fname, contigs_cumul,
    exception,
    warnings,
    outcome,
    invocations

params == <<mode, always_succeed, max_kmer_sizes, filter_contigs, min_contig_len, kmer_sizes>>
locals == <<kmer_idx, lib_idx, contigs_cumul_count, kmer_sizes_succeeded,
            this_kmer_size_succeeded, args, transcripts_fname, contigs_cumul>>
vars == <<params, libraries, contigs_out, spades_dir, pc, locals,
          exception, warnings, outcome, invocations>>

\* ------------------------------------------------------------------ helpers

NoName == [stem |-> "", n |-> 0]
NoPath == [dir |-> 0, name |-> NoName]
NoFiles == [nm \in {} |-> <<>>]
NoArgs == [flag |-> "", pe |-> <<>>, k |-> <<>>, o |-> 0]
NoException == [type |-> "none", k |-> None]
NoOutcome == [ran |-> FALSE, ok |-> FALSE, wrote |-> FALSE, raw |-> <<>>]

\* util.misc.make_seq: a list is taken as it is, anything else is a one-element tuple
make_seq(obj) == IF obj.given THEN obj.sizes ELSE <<None>>

\* the truth value Python gives a k-mer size
TruthyNotNone(k) == k # None
Truthy(k) == k # None /\ k # 0

\* is_nonempty_file, of a path of a library
is_nonempty_lib_file(st) == st = "nonempty"

\* os.path.isfile, of a path under a scratch directory
isfile(dir, path) ==
    dir.exists /\ dir.id = path.dir /\ path.name \in DOMAIN dir.files

\* is_nonempty_file, of a path under a scratch directory
is_nonempty_file(dir, path) ==
    isfile(dir, path) /\ Len(dir.files[path.name]) > 0

\* open(fname, 'w'): the file exists and is empty afterwards
make_empty_in(dir, path) ==
    [dir EXCEPT !.files = (path.name :> <<>>) @@ dir.files]

\* util.file.tmp_dir, on entry: a directory no earlier one shares its name with
tmp_dir_enter(dir) == [exists |-> TRUE, id |-> dir.id + 1, files |-> NoFiles]

\* util.file.tmp_dir, on exit: the directory and what it holds are removed
tmp_dir_exit(dir) == [exists |-> FALSE, id |-> dir.id, files |-> NoFiles]

\* the file the assembler writes into an existing directory
tool_writes(dir, path, wrote, out) ==
    IF wrote THEN [dir EXCEPT !.files = (path.name :> out) @@ dir.files] ELSE dir

\* util.file.concat: the inputs, in order, written after what the output
\* file holds (append) or in place of it
concat(first, second, existing, append) ==
    (IF append THEN existing ELSE <<>>) \o first \o second

\* line 89: the libraries whose forward reads are a non-empty file
EligibleIfExists(libs) == SelectSeq(libs, LAMBDA lib : lib.reads_fwd # "missing")
Eligible(libs) == SelectSeq(libs, LAMBDA lib : is_nonempty_lib_file(lib.reads_fwd))

\* line 99: the passes of the library loop, one per library in meta mode
LibPassesAnyMode == Len(libraries)
LibPasses == IF mode = "meta" THEN Len(libraries) ELSE 1

\* line 103: the libraries of one invocation
LibsOfAttemptFirst == IF mode = "rna" THEN libraries ELSE <<libraries[1]>>
LibsOfAttempt == IF mode = "rna" THEN libraries ELSE <<libraries[lib_idx]>>

\* lines 102-114: the arguments that name the mode, the reads, the k-mer size
\* and the output directory
BuildArgListUnpairedIfExists(libs, kmer_size) ==
    [ flag |-> IF mode = "rna" THEN "--rna" ELSE "--meta",
      pe   |-> [i \in 1..Len(libs) |->
                   [num |-> i, lib |-> libs[i].id,
                    s |-> libs[i].reads_unpaired # "missing"]],
      k    |-> IF Truthy(kmer_size) THEN <<kmer_size>> ELSE <<>>,
      o    |-> spades_dir.id ]

BuildArgList(libs, kmer_size) ==
    [ flag |-> IF mode = "rna" THEN "--rna" ELSE "--meta",
      pe   |-> [i \in 1..Len(libs) |->
                   [num |-> i, lib |-> libs[i].id,
                    s |-> is_nonempty_lib_file(libs[i].reads_unpaired)]],
      k    |-> IF Truthy(kmer_size) THEN <<kmer_size>> ELSE <<>>,
      o    |-> spades_dir.id ]

\* lines 116-119: the file the assembler is expected to write
ExpectedName ==
    [ stem |-> IF mode = "meta" THEN "contigs.fasta"
               ELSE IF filter_contigs THEN "hard_filtered_transcripts.fasta"
               ELSE "transcripts.fasta",
      n |-> 0 ]

\* line 104: the libraries of one invocation are numbered below 9, from 0
LibNumOffByOne(lib_num) == lib_num <= MaxPe
LibNumOk(lib_num) == lib_num < MaxPe

\* line 124: a failed run is tolerated when always_succeed is set
ToleratesFailureAlways == TRUE
ToleratesFailure == always_succeed

\* line 126: the transcripts file of a failed run is made empty
FailedTranscriptsKept(dir) == dir
FailedTranscripts(dir) == make_empty_in(dir, transcripts_fname)

\* line 133: missing transcripts are tolerated when always_succeed is set
ToleratesMissingNever == FALSE
ToleratesMissing == always_succeed

\* line 141: the records at least min_len long, in their order
SansShortStrict(records, min_len) == SelectSeq(records, LAMBDA r : r > min_len)
SansShort(records, min_len) == SelectSeq(records, LAMBDA r : r >= min_len)

\* line 150: the files that make up the cumulative file, in their order
CumulInputsSwapped(transcripts) == <<transcripts, contigs_out.data>>
CumulInputs(transcripts) == <<contigs_out.data, transcripts>>

\* the k-mer size of the current pass
KmerSize == make_seq(kmer_sizes)[kmer_idx]

\* the number of records the assembler has written in the run so far
RECURSIVE Emitted(_)
Emitted(invs) ==
    IF invs = <<>> THEN 0 ELSE Len(invs[1].raw) + Emitted(Tail(invs))

\* ------------------------------------------------------------------ Init

Init ==
    /\ mode \in Modes
    /\ always_succeed \in BOOLEAN
    /\ max_kmer_sizes \in 1..2
    /\ filter_contigs \in (IF mode = "rna" THEN BOOLEAN ELSE {FALSE})
    /\ min_contig_len \in {0, MinContigLen}
    /\ kmer_sizes \in KmerInputs
    /\ libraries \in LibraryInputs
    /\ contigs_out \in PriorContigs
    /\ spades_dir = [exists |-> FALSE, id |-> 0, files |-> NoFiles]
    /\ pc = "call"
    /\ kmer_idx = 0
    /\ lib_idx = 0
    /\ contigs_cumul_count = 0
    /\ kmer_sizes_succeeded = 0
    /\ this_kmer_size_succeeded = FALSE
    /\ args = NoArgs
    /\ transcripts_fname = NoPath
    /\ contigs_cumul = NoPath
    /\ exception = NoException
    /\ warnings = <<>>
    /\ outcome = NoOutcome
    /\ invocations = <<>>


\* ------------------------------------------------------------------ actions

\* lines 79-95: the checks and the set-up that precede the loops
BeginKeepsContigs ==
    /\ pc = "call"
    /\ IF mode \notin {"rna", "meta"}
       THEN /\ exception' = [type |-> "AssertionError", k |-> None]
            /\ pc' = "raised"
            /\ UNCHANGED <<libraries, contigs_out, kmer_idx, contigs_cumul_count,
                           kmer_sizes_succeeded, warnings>>
       ELSE /\ contigs_out' = contigs_out
            /\ contigs_cumul_count' = 0
            /\ libraries' = Eligible(libraries)
            /\ IF libraries' = <<>>
               THEN /\ warnings' = Append(warnings, "no_libraries")
                    /\ pc' = "returned"
                    /\ UNCHANGED <<kmer_idx, kmer_sizes_succeeded>>
               ELSE /\ kmer_sizes_succeeded' = 0
                    /\ kmer_idx' = 1
                    /\ pc' = "kmer_loop"
                    /\ UNCHANGED warnings
            /\ UNCHANGED exception
    /\ UNCHANGED <<params, spades_dir, lib_idx, this_kmer_size_succeeded, args,
                   transcripts_fname, contigs_cumul, outcome, invocations>>

Begin ==
    /\ pc = "call"
    /\ IF mode \notin {"rna", "meta"}
       THEN /\ exception' = [type |-> "AssertionError", k |-> None]
            /\ pc' = "raised"
            /\ UNCHANGED <<libraries, contigs_out, kmer_idx, contigs_cumul_count,
                           kmer_sizes_succeeded, warnings>>
       ELSE /\ contigs_out' = File(<<>>)
            /\ contigs_cumul_count' = 0
            /\ libraries' = Eligible(libraries)
            /\ IF libraries' = <<>>
               THEN /\ warnings' = Append(warnings, "no_libraries")
                    /\ pc' = "returned"
                    /\ UNCHANGED <<kmer_idx, kmer_sizes_succeeded>>
               ELSE /\ kmer_sizes_succeeded' = 0
                    /\ kmer_idx' = 1
                    /\ pc' = "kmer_loop"
                    /\ UNCHANGED warnings
            /\ UNCHANGED exception
    /\ UNCHANGED <<params, spades_dir, lib_idx, this_kmer_size_succeeded, args,
                   transcripts_fname, contigs_cumul, outcome, invocations>>

\* lines 96-97: the head of the loop over the k-mer sizes
NextKmer ==
    /\ pc = "kmer_loop"
    /\ IF kmer_idx > Len(make_seq(kmer_sizes))
       THEN /\ pc' = "returned"
            /\ UNCHANGED <<this_kmer_size_succeeded, lib_idx>>
       ELSE /\ this_kmer_size_succeeded' = FALSE
            /\ lib_idx' = 1
            /\ pc' = "lib_loop"
    /\ UNCHANGED <<params, libraries, contigs_out, spades_dir, kmer_idx, contigs_cumul_count,
                   kmer_sizes_succeeded, args, transcripts_fname, contigs_cumul,
                   exception, warnings, outcome, invocations>>

\* lines 99-101: the head of the loop over the libraries, and the entry of the
\* scratch directory of the attempt
NextLib ==
    /\ pc = "lib_loop"
    /\ IF lib_idx > LibPasses
       THEN /\ pc' = "end_kmer"
            /\ UNCHANGED spades_dir
       ELSE /\ spades_dir.id < MaxAttempts
            /\ spades_dir' = tmp_dir_enter(spades_dir)
            /\ pc' = "build_args"
    /\ UNCHANGED <<params, libraries, contigs_out, locals, exception, warnings, outcome, invocations>>

\* lines 102-119: the argument list and the name of the expected transcripts
BuildArgs ==
    /\ pc = "build_args"
    /\ IF \E lib_num \in 0..(Len(LibsOfAttempt) - 1) : ~LibNumOk(lib_num)
       THEN /\ exception' = [type |-> "AssertionError", k |-> None]
            /\ spades_dir' = tmp_dir_exit(spades_dir)
            /\ pc' = "raised"
            /\ UNCHANGED <<args, transcripts_fname>>
       ELSE /\ args' = BuildArgList(LibsOfAttempt, KmerSize)
            /\ transcripts_fname' = [dir |-> spades_dir.id, name |-> ExpectedName]
            /\ pc' = "execute"
            /\ UNCHANGED <<exception, spades_dir>>
    /\ UNCHANGED <<params, libraries, contigs_out, kmer_idx, lib_idx, contigs_cumul_count,
                   kmer_sizes_succeeded, this_kmer_size_succeeded, contigs_cumul,
                   warnings, outcome, invocations>>

\* lines 121-128: the assembler runs to its end; a failure of the run is
\* turned into an empty transcripts file or raised
Execute ==
    /\ pc = "execute"
    /\ \E ok \in BOOLEAN, wrote \in BOOLEAN, out \in Outputs :
          /\ ~wrote => out = <<>>
          /\ Emitted(invocations) + Len(out) <= MaxTotalRecs
          /\ outcome' = [ran |-> TRUE, ok |-> ok, wrote |-> wrote, raw |-> out]
          /\ invocations' = Append(invocations,
                 [args |-> args, kpos |-> kmer_idx, k |-> KmerSize, ok |-> ok,
                  wrote |-> ok /\ wrote, raw |-> IF ok THEN out ELSE <<>>])
          /\ LET left == tool_writes(spades_dir, transcripts_fname, wrote, out)
             IN  IF ok
                 THEN /\ spades_dir' = left
                      /\ pc' = "check_output"
                      /\ UNCHANGED <<exception, warnings>>
                 ELSE IF ToleratesFailure
                 THEN /\ warnings' = Append(warnings, "spades_failed")
                      /\ spades_dir' = FailedTranscripts(left)
                      /\ pc' = "check_output"
                      /\ UNCHANGED exception
                 ELSE /\ exception' = [type |-> "CalledProcessError", k |-> None]
                      /\ spades_dir' = tmp_dir_exit(left)
                      /\ pc' = "raised"
                      /\ UNCHANGED warnings
    /\ UNCHANGED <<params, libraries, contigs_out, locals>>

\* lines 130-137: the transcripts file is missing although the run succeeded
CheckOutputDiscards ==
    /\ pc = "check_output"
    /\ IF ~isfile(spades_dir, transcripts_fname)
       THEN IF ToleratesMissing
            THEN /\ warnings' = Append(warnings, "no_transcripts")
                 /\ spades_dir' = make_empty_in(spades_dir, transcripts_fname)
                 /\ pc' = "filter"
                 /\ UNCHANGED <<exception, contigs_out>>
            ELSE /\ exception' = [type |-> "RuntimeError", k |-> KmerSize]
                 /\ spades_dir' = tmp_dir_exit(spades_dir)
                 /\ contigs_out' = File(<<>>)
                 /\ pc' = "raised"
                 /\ UNCHANGED warnings
       ELSE /\ pc' = "filter"
            /\ UNCHANGED <<spades_dir, exception, warnings, contigs_out>>
    /\ UNCHANGED <<params, libraries, locals, outcome, invocations>>

CheckOutputSilent ==
    /\ pc = "check_output"
    /\ IF ~isfile(spades_dir, transcripts_fname)
       THEN IF ToleratesMissing
            THEN /\ spades_dir' = make_empty_in(spades_dir, transcripts_fname)
                 /\ pc' = "filter"
                 /\ UNCHANGED <<exception, warnings>>
            ELSE /\ exception' = [type |-> "RuntimeError", k |-> KmerSize]
                 /\ spades_dir' = tmp_dir_exit(spades_dir)
                 /\ pc' = "raised"
                 /\ UNCHANGED warnings
       ELSE /\ pc' = "filter"
            /\ UNCHANGED <<spades_dir, exception, warnings>>
    /\ UNCHANGED <<params, libraries, contigs_out, locals, outcome, invocations>>

CheckOutput ==
    /\ pc = "check_output"
    /\ IF ~isfile(spades_dir, transcripts_fname)
       THEN IF ToleratesMissing
            THEN /\ warnings' = Append(warnings, "no_transcripts")
                 /\ spades_dir' = make_empty_in(spades_dir, transcripts_fname)
                 /\ pc' = "filter"
                 /\ UNCHANGED exception
            ELSE /\ exception' = [type |-> "RuntimeError", k |-> KmerSize]
                 /\ spades_dir' = tmp_dir_exit(spades_dir)
                 /\ pc' = "raised"
                 /\ UNCHANGED warnings
       ELSE /\ pc' = "filter"
            /\ UNCHANGED <<spades_dir, exception, warnings>>
    /\ UNCHANGED <<params, libraries, contigs_out, locals, outcome, invocations>>

\* lines 139-145: the transcripts at least min_contig_len long go to a file of
\* their own, which takes the place of the transcripts file
FilterShort ==
    /\ pc = "filter"
    /\ IF min_contig_len # 0
       THEN LET transcripts == spades_dir.files[transcripts_fname.name]
                transcripts_sans_short == SansShort(transcripts, min_contig_len)
                over == [dir |-> spades_dir.id,
                         name |-> [stem |-> "transcripts_over", n |-> contigs_cumul_count]]
            IN  /\ transcripts_fname' = over
                /\ spades_dir' = [spades_dir EXCEPT
                       !.files = (over.name :> transcripts_sans_short) @@ spades_dir.files]
       ELSE UNCHANGED <<transcripts_fname, spades_dir>>
    /\ pc' = "concat"
    /\ UNCHANGED <<params, libraries, contigs_out, kmer_idx, lib_idx, contigs_cumul_count,
                   kmer_sizes_succeeded, this_kmer_size_succeeded, args, contigs_cumul,
                   exception, warnings, outcome, invocations>>

\* lines 147-150: contigs_out followed by the transcripts, in a new file of the
\* scratch directory
Concat ==
    /\ pc = "concat"
    /\ LET cumul == [dir |-> spades_dir.id,
                     name |-> [stem |-> "contigs_cumul", n |-> contigs_cumul_count]]
           existing == IF isfile(spades_dir, cumul) THEN spades_dir.files[cumul.name] ELSE <<>>
           inputs == CumulInputs(spades_dir.files[transcripts_fname.name])
       IN  /\ contigs_cumul' = cumul
           /\ contigs_cumul_count' = contigs_cumul_count + 1
           /\ spades_dir' = [spades_dir EXCEPT
                  !.files = (cumul.name :> concat(inputs[1], inputs[2], existing, TRUE))
                                @@ spades_dir.files]
    /\ pc' = "copy_back"
    /\ UNCHANGED <<params, libraries, contigs_out, kmer_idx, lib_idx, kmer_sizes_succeeded,
                   this_kmer_size_succeeded, args, transcripts_fname,
                   exception, warnings, outcome, invocations>>

\* line 150, when util.file.concat fails part-way (an OSError: the disk is full,
\* a file cannot be read): a part of the cumulative file is written, the error
\* leaves the `with` block, which removes the scratch directory, and ends the call
ConcatInterruptedInPlace ==
    /\ pc = "concat"
    /\ LET inputs == CumulInputs(spades_dir.files[transcripts_fname.name])
           whole == concat(inputs[1], inputs[2], <<>>, TRUE)
       IN  \E n \in 0..(Len(whole) - 1) :
              /\ Len(contigs_out.data) <= n
              /\ contigs_out' = File(SubSeq(whole, 1, n))
    /\ contigs_cumul_count' = contigs_cumul_count + 1
    /\ exception' = [type |-> "OSError", k |-> None]
    /\ spades_dir' = tmp_dir_exit(spades_dir)
    /\ pc' = "raised"
    /\ UNCHANGED <<params, libraries, kmer_idx, lib_idx, kmer_sizes_succeeded,
                   this_kmer_size_succeeded, args, transcripts_fname, contigs_cumul,
                   warnings, outcome, invocations>>

ConcatInterrupted ==
    /\ pc = "concat"
    /\ LET cumul == [dir |-> spades_dir.id,
                     name |-> [stem |-> "contigs_cumul", n |-> contigs_cumul_count]]
           inputs == CumulInputs(spades_dir.files[transcripts_fname.name])
           whole == concat(inputs[1], inputs[2], <<>>, TRUE)
       IN  \E n \in 0..(Len(whole) - 1) :
              spades_dir' = tmp_dir_exit([spades_dir EXCEPT
                  !.files = (cumul.name :> SubSeq(whole, 1, n)) @@ spades_dir.files])
    /\ contigs_cumul_count' = contigs_cumul_count + 1
    /\ exception' = [type |-> "OSError", k |-> None]
    /\ pc' = "raised"
    /\ UNCHANGED <<params, libraries, contigs_out, kmer_idx, lib_idx, kmer_sizes_succeeded,
                   this_kmer_size_succeeded, args, transcripts_fname, contigs_cumul,
                   warnings, outcome, invocations>>

\* line 151: the cumulative file is copied over contigs_out
CopyBackTranscripts ==
    /\ pc = "copy_back"
    /\ contigs_out' = File(spades_dir.files[transcripts_fname.name])
    /\ pc' = "exit_attempt"
    /\ UNCHANGED <<params, libraries, spades_dir, locals, exception, warnings, outcome, invocations>>

CopyBack ==
    /\ pc = "copy_back"
    /\ contigs_out' = File(spades_dir.files[contigs_cumul.name])
    /\ pc' = "exit_attempt"
    /\ UNCHANGED <<params, libraries, spades_dir, locals, exception, warnings, outcome, invocations>>

\* lines 153-155: the attempt is recorded and its scratch directory left
ExitAttemptKeepsDir ==
    /\ pc = "exit_attempt"
    /\ this_kmer_size_succeeded' =
           (this_kmer_size_succeeded \/ is_nonempty_file(spades_dir, transcripts_fname))
    /\ lib_idx' = lib_idx + 1
    /\ pc' = "lib_loop"
    /\ outcome' = NoOutcome
    /\ UNCHANGED <<params, libraries, contigs_out, spades_dir, kmer_idx, contigs_cumul_count,
                   kmer_sizes_succeeded, args, transcripts_fname, contigs_cumul,
                   exception, warnings, invocations>>

ExitAttempt ==
    /\ pc = "exit_attempt"
    /\ this_kmer_size_succeeded' =
           (this_kmer_size_succeeded \/ is_nonempty_file(spades_dir, transcripts_fname))
    /\ spades_dir' = tmp_dir_exit(spades_dir)
    /\ lib_idx' = lib_idx + 1
    /\ pc' = "lib_loop"
    /\ outcome' = NoOutcome
    /\ UNCHANGED <<params, libraries, contigs_out, kmer_idx, contigs_cumul_count,
                   kmer_sizes_succeeded, args, transcripts_fname, contigs_cumul,
                   exception, warnings, invocations>>

\* lines 157-160: the k-mer size counts as succeeded when the transcripts file
\* is a non-empty file, and enough succeeded sizes end the loop
EndKmerStays ==
    /\ pc = "end_kmer"
    /\ pc' = "kmer_loop"
    /\ UNCHANGED <<params, libraries, contigs_out, spades_dir, kmer_idx, lib_idx,
                   contigs_cumul_count, kmer_sizes_succeeded, this_kmer_size_succeeded,
                   args, transcripts_fname, contigs_cumul, exception, warnings, outcome,
                   invocations>>

EndKmer ==
    /\ pc = "end_kmer"
    /\ IF is_nonempty_file(spades_dir, transcripts_fname)
       THEN /\ kmer_sizes_succeeded' = kmer_sizes_succeeded + 1
            /\ IF kmer_sizes_succeeded' >= max_kmer_sizes
               THEN /\ pc' = "returned"
                    /\ UNCHANGED kmer_idx
               ELSE /\ pc' = "kmer_loop"
                    /\ kmer_idx' = kmer_idx + 1
       ELSE /\ pc' = "kmer_loop"
            /\ kmer_idx' = kmer_idx + 1
            /\ UNCHANGED kmer_sizes_succeeded
    /\ UNCHANGED <<params, libraries, contigs_out, spades_dir, lib_idx, contigs_cumul_count,
                   this_kmer_size_succeeded, args, transcripts_fname, contigs_cumul,
                   exception, warnings, outcome, invocations>>

Next ==
    \/ Begin
    \/ NextKmer
    \/ NextLib
    \/ BuildArgs
    \/ Execute
    \/ CheckOutput
    \/ FilterShort
    \/ Concat
    \/ CopyBack
    \/ ExitAttempt
    \/ EndKmer

Spec == Init /\ [][Next]_vars

\* the call when the writes of line 150 may fail
NextIO ==
    \/ Next
    \/ ConcatInterrupted

SpecIO == Init /\ [][NextIO]_vars

\* the call when the interpreter goes on to the next step as long as there is
\* one, every invocation of the assembler coming to an end; max_kmer_sizes is
\* read at line 159 only, so one value of it stands for all where line 159 is
\* not reached
FairInit == Init /\ max_kmer_sizes = 1

FairSpec == FairInit /\ [][Next]_vars /\ WF_vars(Next)

TypeOK ==
    /\ pc \in {"call", "kmer_loop", "lib_loop", "build_args", "execute", "check_output",
               "filter", "concat", "copy_back", "exit_attempt", "end_kmer",
               "returned", "raised"}
    /\ contigs_out.exists \in BOOLEAN
    /\ Len(invocations) <= MaxAttempts

\* ------------------------------------------------------------------ properties

Valid == mode \in {"rna", "meta"}

Passes == make_seq(kmer_sizes)

Front(s) == SubSeq(s, 1, Len(s) - 1)

\* the last invocation has returned and its transcripts are not yet in contigs_out
InAttempt == pc \in {"check_output", "filter", "concat", "copy_back"}

\* the call ended with an error of one attempt
FatalAttempt == pc = "raised" /\ exception.type \in {"CalledProcessError", "RuntimeError"}

\* the invocations whose attempt has come to its end
Merged == IF InAttempt \/ FatalAttempt THEN Front(invocations) ELSE invocations

RECURSIVE KeepLong(_, _)
KeepLong(records, min_len) ==
    IF records = <<>> THEN <<>>
    ELSE IF Head(records) < min_len THEN KeepLong(Tail(records), min_len)
    ELSE <<Head(records)>> \o KeepLong(Tail(records), min_len)

\* what one attempt is to add to contigs_out
Contribution(inv) ==
    IF inv.ok /\ inv.wrote
    THEN IF min_contig_len > 0 THEN KeepLong(inv.raw, min_contig_len) ELSE inv.raw
    ELSE <<>>

RECURSIVE Accumulated(_)
Accumulated(invs) ==
    IF invs = <<>> THEN <<>> ELSE Contribution(Head(invs)) \o Accumulated(Tail(invs))

AllSucceeded == \A i \in 1..Len(invocations) : invocations[i].ok /\ invocations[i].wrote

\* the loop over the k-mer sizes was left by the break of line 160
EarlyStopped == pc = "returned" /\ libraries # <<>> /\ kmer_idx <= Len(Passes)

PlannedAttempts == IF mode = "meta" THEN Len(libraries) * Len(Passes) ELSE Len(Passes)

\* C1: while every attempt succeeds, contigs_out holds what it held before the
\* first attempt (nothing: line 83 empties it) followed by the transcripts of the
\* attempts that have ended, in the order of the attempts, each filtered by
\* length when min_contig_len > 0.
C1_Accumulation ==
    (Valid /\ pc # "call" /\ AllSucceeded) => contigs_out = File(Accumulated(Merged))

C1_Witness ==
    /\ pc = "returned"
    /\ Len(invocations) = 2
    /\ AllSucceeded
    /\ min_contig_len = 0
    /\ contigs_out.data = <<MinContigLen, MinContigLen - 1>>

\* the last attempt of the pass p of the k-mer loop has ended and left
\* transcripts that are not empty
YieldedNonEmpty(p) ==
    \E i \in 1..Len(Merged) :
        /\ invocations[i].kpos = p
        /\ \A j \in (i + 1)..Len(invocations) : invocations[j].kpos # p
        /\ Contribution(invocations[i]) # <<>>

\* C2: no attempt is made for a k-mer size once max_kmer_sizes earlier k-mer
\* sizes have yielded transcripts that are not empty.
C2_EarlyStop ==
    \A j \in 1..Len(invocations) :
        Cardinality({p \in 1..(invocations[j].kpos - 1) : YieldedNonEmpty(p)}) < max_kmer_sizes

\* C3: with always_succeed, an invocation that fails raises nothing, adds no
\* record to contigs_out whatever the assembler had written, and the loops go
\* on to their end.
C3_ToleratedFailure ==
    always_succeed =>
        \A i \in 1..Len(invocations) :
            ~invocations[i].ok =>
                /\ exception = NoException
                /\ pc # "raised"
                /\ contigs_out = File(Accumulated(Merged))
                /\ (i = Len(invocations) /\ InAttempt) =>
                       /\ isfile(spades_dir, [dir |-> spades_dir.id, name |-> ExpectedName])
                       /\ spades_dir.files[ExpectedName] = <<>>
                /\ pc = "returned" => (EarlyStopped \/ Len(invocations) = PlannedAttempts)

C3_Witness ==
    /\ always_succeed
    /\ pc = "exit_attempt"
    /\ Len(invocations) = 2
    /\ ~invocations[1].ok
    /\ ~outcome.ok
    /\ outcome.raw # <<>>
    /\ contigs_out.data = <<>>

\* C4: without always_succeed, an invocation that fails is the last one: the
\* call raises the failure at once.
C4_FailureIsFatal ==
    ~always_succeed =>
        \A i \in 1..Len(invocations) :
            ~invocations[i].ok =>
                /\ i = Len(invocations)
                /\ pc = "raised"
                /\ exception.type = "CalledProcessError"

C4_Witness ==
    /\ pc = "raised"
    /\ exception.type = "CalledProcessError"
    /\ mode = "meta"
    /\ lib_idx < Len(libraries)
    /\ kmer_idx < Len(Passes)

\* C5: when an attempt ends the call with an error, contigs_out holds what the
\* attempts before it have added, no more and no less.
C5_NoRollback ==
    FatalAttempt => contigs_out = File(Accumulated(Front(invocations)))

C5_Witness ==
    /\ FatalAttempt
    /\ Len(invocations) = 3
    /\ Len(contigs_out.data) = 2

NoEligibleLibrary ==
    \A i \in 1..Len(libraries) : libraries[i].reads_fwd # "nonempty"

NothingAssembled ==
    /\ pc = "returned"
    /\ exception = NoException
    /\ contigs_out = File(<<>>)
    /\ invocations = <<>>
    /\ spades_dir.id = 0

\* C6, as stated: when no library has forward reads that are a non-empty file,
\* the call returns without raising, contigs_out exists and is empty, nothing
\* was invoked and no scratch directory was made.
C6_Original ==
    (pc # "call" /\ NoEligibleLibrary) => NothingAssembled

\* C6, amended: the same, of the calls whose mode is 'rna' or 'meta'.
C6_NoEligibleLibrary ==
    (Valid /\ pc # "call" /\ NoEligibleLibrary) => NothingAssembled

C6_Witness ==
    /\ Valid
    /\ NoEligibleLibrary
    /\ pc = "returned"
    /\ warnings = <<"no_libraries">>

\* the libraries an invocation was given, by their place in the caller's list
LibsGiven(inv) == [j \in 1..Len(inv.args.pe) |-> inv.args.pe[j].lib]

AllLibs == [j \in 1..Len(libraries) |-> libraries[j].id]

Finished == Valid /\ pc = "returned" /\ exception = NoException /\ ~EarlyStopped

\* C7, as stated: a call that ends without an error and without the break has
\* made one invocation per eligible library and k-mer size in meta mode, each
\* with one library, and one invocation per k-mer size in rna mode, each with
\* all the eligible libraries.
C7_Original ==
    Finished =>
        IF mode = "meta"
        THEN /\ Len(invocations) = Len(libraries) * Len(Passes)
             /\ \A i \in 1..Len(invocations) : Len(invocations[i].args.pe) = 1
        ELSE /\ Len(invocations) = Len(Passes)
             /\ \A i \in 1..Len(invocations) : LibsGiven(invocations[i]) = AllLibs

\* C7, amended: the same, but rna mode makes no invocation when no library is
\* eligible.
C7_AttemptCount ==
    Finished =>
        IF mode = "meta"
        THEN /\ Len(invocations) = Len(libraries) * Len(Passes)
             /\ \A i \in 1..Len(invocations) : Len(invocations[i].args.pe) = 1
        ELSE /\ Len(invocations) = (IF libraries = <<>> THEN 0 ELSE Len(Passes))
             /\ \A i \in 1..Len(invocations) : LibsGiven(invocations[i]) = AllLibs

C7_Witness ==
    /\ Finished
    /\ mode = "meta"
    /\ Len(libraries) = 2
    /\ kmer_sizes = [given |-> TRUE, sizes |-> <<21>>]
    /\ Len(invocations) = 2

RECURSIVE AllRaw(_)
AllRaw(invs) ==
    IF invs = <<>> THEN <<>> ELSE AllRaw(Front(invs)) \o invs[Len(invs)].raw

\* C8: with min_contig_len = L > 0, contigs_out holds no record shorter than L,
\* and holds every record of length >= L the attempts have left, in their order.
C8_MinContigLen ==
    (Valid /\ pc # "call" /\ min_contig_len > 0) =>
        /\ \A i \in 1..Len(contigs_out.data) : contigs_out.data[i] >= min_contig_len
        /\ contigs_out.data = KeepLong(AllRaw(Merged), min_contig_len)

C8_Witness ==
    /\ pc = "returned"
    /\ min_contig_len > 0
    /\ contigs_out.data # <<>>
    /\ Len(AllRaw(invocations)) > Len(contigs_out.data)

\* C9: when a run succeeds and its transcripts file is missing, then with
\* always_succeed the attempt counts as one that left no transcripts (an empty
\* file stands for them, nothing is raised, the loops go on), and without it a
\* RuntimeError that names the k-mer size ends the call.
C9_MissingOutput ==
    \A i \in 1..Len(invocations) :
        (invocations[i].ok /\ ~invocations[i].wrote) =>
            IF always_succeed
            THEN /\ exception = NoException
                 /\ pc # "raised"
                 /\ contigs_out = File(Accumulated(Merged))
                 /\ (i = Len(invocations) /\ pc \in {"filter", "concat", "copy_back"}) =>
                        /\ isfile(spades_dir, [dir |-> spades_dir.id, name |-> ExpectedName])
                        /\ spades_dir.files[ExpectedName] = <<>>
                 /\ pc = "returned" => (EarlyStopped \/ Len(invocations) = PlannedAttempts)
            ELSE /\ i = Len(invocations)
                 /\ \/ pc = "check_output"
                    \/ /\ pc = "raised"
                       /\ exception = [type |-> "RuntimeError", k |-> invocations[i].k]

C9_Witness ==
    /\ pc = "raised"
    /\ exception = [type |-> "RuntimeError", k |-> 33]
    /\ Len(invocations) = 2
    /\ invocations[2].ok

TooManyLibs ==
    /\ mode = "rna"
    /\ Cardinality({i \in 1..Len(libraries) : libraries[i].reads_fwd = "nonempty"}) > MaxPe

NothingInvoked ==
    /\ invocations = <<>>
    /\ pc \in {"call", "kmer_loop", "lib_loop", "build_args", "raised", "returned"}
    /\ pc = "raised" => exception.type = "AssertionError"

\* C10, as stated: a mode that is not supported, and more than 9 eligible
\* libraries in rna mode, end the call with an error before anything is invoked.
C10_Original ==
    (~Valid \/ TooManyLibs) => (NothingInvoked /\ pc # "returned")

\* C10, amended: nothing is invoked, and the call ends with an error unless the
\* mode is supported and kmer_sizes is an empty list.
C10_InvalidConfiguration ==
    (~Valid \/ TooManyLibs) =>
        /\ NothingInvoked
        /\ pc = "returned" => (Valid /\ Passes = <<>>)

C10_Witness ==
    /\ pc = "raised"
    /\ exception.type = "AssertionError"
    /\ TooManyLibs
    /\ always_succeed
    /\ spades_dir = [exists |-> FALSE, id |-> 1, files |-> NoFiles]

IsPrefix(a, b) == Len(a) <= Len(b) /\ SubSeq(b, 1, Len(a)) = a

\* C11: once the call has created contigs_out, no step shortens it or changes
\* what it holds: what it held before a step is a prefix of what it holds after.
C11_AppendOnly ==
    [][pc # "call" =>
          /\ contigs_out'.exists
          /\ IsPrefix(contigs_out.data, contigs_out'.data)]_vars

C11_Witness ==
    /\ pc = "exit_attempt"
    /\ Len(invocations) = 3
    /\ invocations[1].raw # <<>>
    /\ invocations[2].raw = <<>>
    /\ invocations[3].raw # <<>>
    /\ Len(contigs_out.data) = 2

\* the passes of the k-mer loop that have ended
EndedPasses ==
    IF pc = "kmer_loop" THEN 1..(kmer_idx - 1)
    ELSE IF pc = "returned" /\ Len(invocations) > 0 THEN 1..invocations[Len(invocations)].kpos
    ELSE {}

\* C12: between two passes of the k-mer loop, and on return, the counter
\* kmer_sizes_succeeded is the number of ended passes whose last transcripts
\* file was not empty, and it is at most max_kmer_sizes.
C12_SuccessCount ==
    (pc \in {"kmer_loop", "returned"} /\ Valid) =>
        /\ kmer_sizes_succeeded = Cardinality({p \in EndedPasses : YieldedNonEmpty(p)})
        /\ kmer_sizes_succeeded <= max_kmer_sizes

\* the steps made inside the `with` block of an attempt
WithinAttempt ==
    {"build_args", "execute", "check_output", "filter", "concat", "copy_back", "exit_attempt"}

\* C13: a scratch directory is created only when the one before it has been
\* removed, it is empty and new when created, it exists exactly while its
\* attempt runs, and nothing of it is left once the call has returned or raised,
\* whichever way the attempt ended.
C13_ScratchLifecycle ==
    [][ /\ spades_dir'.id # spades_dir.id =>
              /\ ~spades_dir.exists
              /\ spades_dir'.exists
              /\ spades_dir'.files = NoFiles
              /\ spades_dir'.id > spades_dir.id
        /\ spades_dir'.exists <=> pc' \in WithinAttempt
        /\ pc' \in {"returned", "raised"} => spades_dir'.files = NoFiles
        /\ pc' = "execute" =>
              \A i \in 1..Len(invocations) : invocations[i].args.o # args'.o ]_vars

C13_Witness ==
    /\ pc = "raised"
    /\ exception.type = "RuntimeError"
    /\ spades_dir.id = 2
    /\ ~spades_dir.exists
    /\ spades_dir.files = NoFiles
    /\ Len(invocations) = 2

\* C14: contigs_out, once created, is written by the copy of line 151 only,
\* when the cumulative file holds the whole of the old contigs_out followed by
\* the whole of the transcripts of the attempt; a failure of the write of the
\* cumulative file ends the call with contigs_out as it was, holding what the
\* attempts before had accumulated.
C14_AppendThenCopyBack ==
    [][ /\ (pc # "call" /\ contigs_out' # contigs_out) =>
              /\ pc = "copy_back"
              /\ isfile(spades_dir, contigs_cumul)
              /\ spades_dir.files[contigs_cumul.name] =
                     contigs_out.data \o spades_dir.files[transcripts_fname.name]
              /\ contigs_out' = File(spades_dir.files[contigs_cumul.name])
        /\ exception'.type = "OSError" =>
              /\ contigs_out' = contigs_out
              /\ contigs_out'.data = Accumulated(Front(invocations)) ]_vars

C14_Witness ==
    /\ pc = "raised"
    /\ exception.type = "OSError"
    /\ Len(invocations) = 2
    /\ Contribution(invocations[1]) # <<>>
    /\ Contribution(invocations[2]) # <<>>
    /\ contigs_out = File(Contribution(invocations[1]))

\* the number of warnings of one kind in the log
Warned(kind) == Cardinality({i \in 1..Len(warnings) : warnings[i] = kind})

\* the invocations whose expected output has been looked for
Checked == IF pc = "check_output" THEN Front(invocations) ELSE invocations

\* C15: every failed invocation the call has gone past has left a warning, and
\* so has every invocation that succeeded without the expected file once the
\* call has gone past the test of line 131; a return for want of an eligible
\* library has left a warning too.
C15_Warnings ==
    /\ (Valid /\ always_succeed) =>
          /\ pc # "raised" \/ exception.type = "AssertionError"
          /\ Warned("spades_failed") =
                 Cardinality({i \in 1..Len(invocations) : ~invocations[i].ok})
          /\ Warned("no_transcripts") =
                 Cardinality({i \in 1..Len(Checked) : Checked[i].ok /\ ~Checked[i].wrote})
    /\ (Valid /\ pc # "call" /\ libraries = <<>>) =>
          (pc = "returned" /\ warnings = <<"no_libraries">>)

C15_Witness ==
    /\ always_succeed
    /\ pc = "returned"
    /\ Len(invocations) = 2
    /\ ~invocations[1].ok
    /\ invocations[2].ok /\ ~invocations[2].wrote
    /\ warnings = <<"spades_failed", "no_transcripts">>

\* C16: every invocation names libraries with non-empty forward reads only;
\* its libraries are numbered 1, 2, ... in the order the caller gave them; in
\* rna mode they are all the eligible libraries and at most 9, in meta mode
\* there is one, numbered 1, however many libraries there are; the unpaired
\* reads of a library are given exactly when they are a non-empty file.
C16_EligibleLibraries ==
    /\ pc # "call" =>
          \A a \in 1..(Len(libraries) - 1) : libraries[a].id < libraries[a + 1].id
    /\ \A i \in 1..Len(invocations) :
          LET pe == invocations[i].args.pe
          IN  /\ Len(pe) >= 1
              /\ \A j \in 1..Len(pe) :
                    /\ pe[j].num = j
                    /\ \E l \in 1..Len(libraries) :
                          /\ libraries[l].id = pe[j].lib
                          /\ libraries[l].reads_fwd = "nonempty"
                          /\ pe[j].s = (libraries[l].reads_unpaired = "nonempty")
              /\ mode = "rna" => (Len(pe) <= MaxPe /\ LibsGiven(invocations[i]) = AllLibs)
              /\ mode = "meta" => Len(pe) = 1

C16_Witness ==
    /\ mode = "meta"
    /\ Len(libraries) = MaxPe + 1
    /\ Len(invocations) = 3
    /\ invocations[1].args.pe = <<[num |-> 1, lib |-> 1, s |-> FALSE]>>
    /\ invocations[2].args.pe = <<[num |-> 1, lib |-> 2, s |-> FALSE]>>
    /\ invocations[3].args.pe = <<[num |-> 1, lib |-> 3, s |-> TRUE]>>

\* every invocation has the k-mer size of its pass, and names it with -k exactly
\* when it is neither 0 nor None
ExplicitKmer ==
    \A i \in 1..Len(invocations) :
        LET k == invocations[i].k
        IN  /\ k = Passes[invocations[i].kpos]
            /\ invocations[i].args.k = (IF k # 0 /\ k # None THEN <<k>> ELSE <<>>)

\* one pass with no k-mer size named has been made
OneAutoPass ==
    /\ Len(invocations) = (IF mode = "meta" THEN Len(libraries) ELSE 1)
    /\ \A i \in 1..Len(invocations) :
          invocations[i].kpos = 1 /\ invocations[i].args.k = <<>>

\* C17, as stated: an invocation names a k-mer size exactly when its k-mer size
\* is neither 0 nor None, and a call without kmer_sizes that runs to its end
\* has made one pass that names none: one attempt in rna mode, one per eligible
\* library in meta mode.
C17_Original ==
    /\ ExplicitKmer
    /\ (Finished /\ ~kmer_sizes.given) => OneAutoPass

\* C17: an invocation names a k-mer size exactly when its k-mer size is neither
\* 0 nor None, and a call without kmer_sizes that runs to its end with at least
\* one eligible library has made one pass that names none: one attempt in rna
\* mode, one per eligible library in meta mode.
C17_AutoKmer ==
    /\ ExplicitKmer
    /\ (Finished /\ ~kmer_sizes.given /\ libraries # <<>>) => OneAutoPass

C17_Witness ==
    /\ Finished
    /\ ~kmer_sizes.given
    /\ mode = "meta"
    /\ Len(libraries) = 2
    /\ Len(invocations) = 2
    /\ invocations[2].k = None
    /\ invocations[2].args.k = <<>>

\* the invocations were made one after the other, each in a scratch directory
\* of its own, in the order of the passes of the k-mer loop and, within a pass
\* in meta mode, in the order of the libraries; when one starts, the attempts
\* before it have been added to contigs_out and their directories are gone
Sequential ==
    /\ Len(invocations) <= spades_dir.id
    /\ spades_dir.id <= Len(invocations) + 1
    /\ \A i \in 1..Len(invocations) :
          /\ invocations[i].args.o = i
          /\ invocations[i].k = Passes[invocations[i].kpos]
    /\ \A i \in 1..(Len(invocations) - 1) :
          \/ invocations[i].kpos < invocations[i + 1].kpos
          \/ /\ invocations[i].kpos = invocations[i + 1].kpos
             /\ mode = "meta"
             /\ invocations[i].args.pe[1].lib < invocations[i + 1].args.pe[1].lib
    /\ pc = "execute" =>
          /\ contigs_out = File(Accumulated(invocations))
          /\ spades_dir.exists
          /\ spades_dir.id = Len(invocations) + 1
          /\ spades_dir.files = NoFiles
          /\ args.o = spades_dir.id

\* C18, as stated: the invocations are sequential and ordered, and no two of
\* them have the same k-mer size and the same libraries.
C18_Original ==
    /\ Sequential
    /\ \A j \in 1..Len(invocations) :
          \A i \in 1..(j - 1) :
              \/ invocations[i].k # invocations[j].k
              \/ LibsGiven(invocations[i]) # LibsGiven(invocations[j])

\* C18: the invocations are sequential and ordered, and no two of them are of
\* the same position of kmer_sizes and the same libraries.
C18_SequentialAttempts ==
    /\ Sequential
    /\ \A j \in 1..Len(invocations) :
          \A i \in 1..(j - 1) :
              \/ invocations[i].kpos # invocations[j].kpos
              \/ LibsGiven(invocations[i]) # LibsGiven(invocations[j])

C18_Witness ==
    /\ mode = "meta"
    /\ pc = "exit_attempt"
    /\ kmer_sizes.sizes = <<21, 21>>
    /\ Len(invocations) = 3
    /\ LibsGiven(invocations[1]) = <<1>> /\ invocations[1].kpos = 1
    /\ LibsGiven(invocations[2]) = <<2>> /\ invocations[2].kpos = 1
    /\ LibsGiven(invocations[3]) = <<1>> /\ invocations[3].kpos = 2

\* C19: the first step of a call with a supported mode leaves contigs_out
\* empty, whatever it held and before any attempt, and from then on contigs_out
\* holds what the attempts of the call have added and nothing else, also when
\* the call returns for want of a library or ends with an error; no step of a
\* call with an unsupported mode writes contigs_out.
C19_PriorContentDiscarded ==
    [][ /\ (Valid /\ pc = "call") =>
              /\ contigs_out' = File(<<>>)
              /\ invocations' = <<>>
              /\ spades_dir' = spades_dir
        /\ Valid => contigs_out' = File(Accumulated(Merged))'
        /\ ~Valid => (contigs_out' = contigs_out /\ pc' = "raised") ]_vars

C19_Witness ==
    /\ pc = "raised"
    /\ exception.type = "CalledProcessError"
    /\ Len(invocations) = 1
    /\ invocations[1].args.o = 1
    /\ contigs_out = File(<<>>)

\* the call has returned or raised
Ended == pc \in {"returned", "raised"}

\* the run has used the MaxAttempts scratch directories that are followed
AttemptsExhausted ==
    pc = "lib_loop" /\ lib_idx <= LibPasses /\ spades_dir.id >= MaxAttempts

\* no more invocations than passes of the k-mer loop in rna mode, than passes
\* times eligible libraries in meta mode
InvocationsBounded == Len(invocations) <= PlannedAttempts

\* C20: every call comes to an end, by a return or an error (within the
\* attempts that are followed), having made at most one invocation per k-mer
\* size in rna mode and one per k-mer size and eligible library in meta mode;
\* with always_succeed, a supported mode and at most 9 libraries in rna mode it
\* never raises, so that its end is a return.
C20_Termination ==
    /\ [](InvocationsBounded)
    /\ []((always_succeed /\ Valid /\ ~TooManyLibs) => pc # "raised")
    /\ <>(Ended \/ AttemptsExhausted)

C20_Witness ==
    /\ pc = "returned"
    /\ always_succeed
    /\ mode = "meta"
    /\ Len(libraries) = 2
    /\ Len(Passes) = 1
    /\ Len(invocations) = 2
    /\ ~invocations[1].ok
    /\ invocations[2].ok /\ ~invocations[2].wrote

====
